---- MODULE Spec2Model ----
\* vm5k: reservation planning, host-count distribution, IP-MAC generation and
\* topology/reservation correspondence of src/vm5k.py, as a state machine.
\* Memory sizes are in units of 1024 MB.  Python dictionaries are functions
\* whose DOMAIN is the key set; lists are sequences.
EXTENDS Integers, Sequences, FiniteSets, TLC

VARIABLES
    pc,             \* position in the script
    n_vm,           \* options.n_vm (line 172)
    vm_template,    \* options.vm_template: [mem, cpu] (line 104)
    resources,      \* resources dict (lines 187-201), later merged (319-333)
    clusters,       \* clusters list (line 230)
    clusters_attr,  \* clusters_attr dict (lines 236-241)
    chosen_slot,    \* chosen_slot (line 294)
    cluster_nodes,  \* cluster_nodes dict (line 296)
    cluster,        \* cluster: last value yielded by iter_cluster (line 302)
    node_ram,       \* node_ram (line 305)
    i_vm,           \* loop index of line 306
    reservation,    \* the calls of create_reservation made so far (line 336)
    sites,          \* sites list (lines 400-404)
    kavlan_id,      \* kavlan_id (line 361)
    addresses,      \* addresses: the subnet of the KaVLAN (line 379)
    vm_ip,          \* vm_ip (line 410)
    macs,           \* macs (line 420)
    mac,            \* mac being drawn (line 422)
    ip_mac,         \* ip_mac (line 419)
    i_ip,           \* position of the loop of line 421 in vm_ip[0:n_vm]
    hosts,          \* short names of the reserved hosts, sorted (lines 382-383)
    infile,         \* host ids of the topology file as read (line 174)
    placement,      \* host ids of the parsed tree, rewritten in place (line 443)
    tmp_hosts,      \* tmp_hosts (line 439)
    i_host,         \* position of the loop of line 440
    runs            \* how many times the check of lines 437-444 was started

vars == <<pc, n_vm, vm_template, resources, clusters, clusters_attr, chosen_slot, cluster_nodes, cluster, node_ram, i_vm,
          reservation, sites, kavlan_id, addresses, vm_ip, macs, mac, ip_mac,
          i_ip, hosts, infile, placement, tmp_hosts, i_host, runs>>

resVars == <<resources, clusters, clusters_attr, chosen_slot,
             cluster_nodes, cluster, node_ram, i_vm, reservation>>
netVars == <<sites, kavlan_id, addresses, vm_ip, macs, mac, ip_mac, i_ip>>
topoVars == <<hosts, infile, placement, tmp_hosts, i_host, runs>>

\* ---------------------------------------------------------------- bounds
MaxVm == 3          \* largest -n n_vm tried
MaxAvail == 2       \* most free nodes of one cluster in a slot
MaxSlots == 1       \* most slots the planning computes
MaxMin == 1         \* largest node count asked for one element of -r
MaxBlock == 2       \* most values of the third octet in the KaVLAN subnet
LastOctet == 2      \* largest fourth octet of an address (255 in IPv4)
MaxHostEls == 2     \* most <host> elements in the topology file
MaxRuns == 2        \* most runs of the topology check on one tree

None == "None"
Range(s) == {s[i] : i \in 1..Len(s)}

RECURSIVE SumOver(_, _)
SumOver(f, S) ==
    IF S = {} THEN 0
    ELSE LET x == CHOOSE y \in S : TRUE IN f[x] + SumOver(f, S \ {x})

\* ------------------------------------------------- Grid'5000 inventory
G5kSites == {"A"}
G5kClusters == <<"a1", "a2">>
get_cluster_site(c) == "A"
Elements == G5kSites \cup Range(G5kClusters)

\* one host of a cluster: 'cpu' (smt_size) and 'mem' (ram_size/1048576)
HostModels == {[cpu |-> 1, mem |-> 3], [cpu |-> 2, mem |-> 1]}
\* <vm mem= cpu=/> templates tried
VmTemplates == {[mem |-> 1, cpu |-> 1], [mem |-> 1, cpu |-> 2], [mem |-> 2, cpu |-> 1]}

\* lines 179-180
total_mem == n_vm * vm_template.mem
total_cpu == n_vm * vm_template.cpu

\* lines 212-231: the clusters the elements of -r stand for, in inventory order
ClustersOf(res) ==
    SelectSeq(G5kClusters,
              LAMBDA c : c \in DOMAIN res \/ get_cluster_site(c) \in DOMAIN res)

\* lines 196-201: -r element[:n_nodes],...
Requests ==
    UNION {[K -> 0..MaxMin] : K \in (SUBSET Elements) \ {{}}}

\* ------------------------------------------------------------ planning
\* One slot of planning.slots: slot[0] is start, slot[2] is free, the free
\* nodes of every planned cluster, of its site, and the free KaVLANs.
SlotKeys(cl) == Range(cl) \cup {get_cluster_site(c) : c \in Range(cl)} \cup {"kavlan"}

FreeOf(cl, f) ==
    [r \in SlotKeys(cl) |->
        IF r \in Range(cl) THEN f[r]
        ELSE IF r = "kavlan" THEN 1
        ELSE SumOver(f, {c \in Range(cl) : get_cluster_site(c) = r})]

\* lines 259-260: what Planning(clusters, ...).compute_slots may hold
PlanningSlots(cl) ==
    UNION {[1..n -> [Range(cl) -> 0..MaxAvail]] : n \in 0..MaxSlots}

MakeSlots(cl, fs) == [i \in 1..Len(fs) |-> [start |-> i, free |-> FreeOf(cl, fs[i])]]

\* lines 269-276
slot_ram(slot) ==
    SumOver([r \in DOMAIN slot.free |->
                IF r \in Range(clusters) THEN slot.free[r] * clusters_attr[r].mem ELSE 0],
            DOMAIN slot.free)

slot_cpu(slot) ==
    SumOver([r \in DOMAIN slot.free |->
                IF r \in Range(clusters) THEN slot.free[r] * clusters_attr[r].cpu ELSE 0],
            DOMAIN slot.free)

\* lines 271, 278-279
slot_has_nodes(slot) ==
    \A r \in DOMAIN slot.free :
        ~(r \in DOMAIN resources /\ slot.free[r] < resources[r])

DiscardNoCpu(slot) ==
    \/ total_mem > slot_ram(slot)
    \/ ~slot_has_nodes(slot)

\* line 282; '/' on two Python 2 ints is floor division
Discard(slot) ==
    \/ total_mem > slot_ram(slot)
    \/ total_cpu \div 2 > slot_cpu(slot)
    \/ ~slot_has_nodes(slot)

\* list.remove(x): drops the first element equal to x
RECURSIVE ListRemove(_, _)
ListRemove(s, x) ==
    IF s = <<>> THEN <<>>
    ELSE IF Head(s) = x THEN Tail(s)
    ELSE <<Head(s)>> \o ListRemove(Tail(s), x)

\* lines 267-283: the loop over the copy tmp_slots, removing from planning.slots
RECURSIVE FilterSlots(_, _)
FilterSlots(tmp_slots, kept) ==
    IF tmp_slots = <<>> THEN kept
    ELSE FilterSlots(Tail(tmp_slots),
                     IF Discard(Head(tmp_slots))
                     THEN ListRemove(kept, Head(tmp_slots))
                     ELSE kept)

\* line 290: planning.find_free_slots(walltime, resources) answers with some of
\* the slots planning.slots still holds, in their order
RECURSIVE SubSeqs(_)
SubSeqs(s) ==
    IF s = <<>> THEN {<<>>}
    ELSE LET rest == SubSeqs(Tail(s))
         IN rest \cup {<<Head(s)>> \o t : t \in rest}

\* ------------------------------------------------ host-count distribution
\* cluster_nodes.iterkeys(): the planned clusters, in a fixed order
Keys == SelectSeq(clusters, LAMBDA c : c \in DOMAIN cluster_nodes)

IndexOf(s, x) == CHOOSE i \in 1..Len(s) : s[i] = x

\* iter_cluster.next() of cycle(cluster_nodes.iterkeys()) after it yielded c
NextCluster(c) == Keys[(IndexOf(Keys, c) % Len(Keys)) + 1]

Max(a, b) == IF a >= b THEN a ELSE b

\* lines 319-325: one pass of the loop body, on the pair (cluster_nodes, resources)
MergeOne(st, c) ==
    LET cn == IF c \in DOMAIN st.res
              THEN [st.cn EXCEPT ![c] = Max(@, st.res[c])]
              ELSE st.cn
        site == get_cluster_site(c)
        res == IF site \in DOMAIN st.res
               THEN [st.res EXCEPT ![site] = @ + cn[c]]
               ELSE [r \in DOMAIN st.res \cup {site} |->
                        IF r = site THEN cn[c] ELSE st.res[r]]
    IN [cn |-> cn, res |-> res]

RECURSIVE MergeAll(_, _)
MergeAll(st, ks) ==
    IF ks = <<>> THEN st ELSE MergeAll(MergeOne(st, Head(ks)), Tail(ks))

\* dict.update
Update(d, e) == [k \in DOMAIN d \cup DOMAIN e |-> IF k \in DOMAIN e THEN e[k] ELSE d[k]]

\* ------------------------------------------------- GRID RESERVATION steps
NetIdle ==
    /\ sites = <<>> /\ kavlan_id = 0 /\ addresses = None /\ vm_ip = <<>>
    /\ macs = <<>> /\ mac = None /\ ip_mac = <<>> /\ i_ip = 0

TopoIdle ==
    /\ hosts = <<>> /\ infile = <<>> /\ placement = <<>> /\ tmp_hosts = <<>>
    /\ i_host = 0 /\ runs = 0

ResIdle ==
    /\ resources = <<>> /\ clusters = <<>> /\ clusters_attr = <<>>
    /\ chosen_slot = None
    /\ cluster_nodes = <<>> /\ cluster = None /\ node_ram = 0 /\ i_vm = 0
    /\ reservation = <<>>

\* lines 170-245: -n n_vm with -r resources, no -i infile, no -j oargrid_job_id
Init ==
    /\ pc = "planning"
    /\ n_vm \in 1..MaxVm
    /\ vm_template \in VmTemplates
    /\ resources \in Requests
    /\ clusters = ClustersOf(resources)
    /\ clusters_attr \in [Range(clusters) -> HostModels]
    /\ chosen_slot = None
    /\ cluster_nodes = <<>> /\ cluster = None /\ node_ram = 0 /\ i_vm = 0
    /\ reservation = <<>>
    /\ NetIdle /\ TopoIdle

\* lines 257-305 and 326-328: the planning computes its slots, the loop of
\* line 267 filters them, find_free_slots answers, and either the first answer
\* is chosen and the distribution is set up, or the script exits
FindSlot ==
    /\ pc = "planning"
    /\ \E fs \in PlanningSlots(clusters) :
          LET tmp_slots == MakeSlots(clusters, fs)
              slots == FilterSlots(tmp_slots, tmp_slots)
          IN \E slots_ok \in SubSeqs(slots) :
                IF Len(slots_ok) > 0
                THEN /\ chosen_slot' = slots_ok[1]
                     /\ cluster_nodes' =
                           [c \in {k \in DOMAIN slots_ok[1].free : k \in Range(clusters)} |-> 0]
                     /\ cluster' =
                           SelectSeq(clusters, LAMBDA c : c \in DOMAIN slots_ok[1].free)[1]
                     /\ pc' = "for_vm"
                ELSE /\ pc' = "exit"
                     /\ UNCHANGED <<chosen_slot, cluster_nodes, cluster>>
    /\ UNCHANGED <<n_vm, vm_template, resources, clusters, clusters_attr, node_ram,
                   i_vm, reservation, netVars, topoVars>>

\* lines 306-313: one VM; a host that cannot take one more VM is counted
ForVm ==
    /\ pc = "for_vm"
    /\ i_vm < n_vm
    /\ LET ram == node_ram + vm_template.mem
       IN IF ram + vm_template.mem > clusters_attr[cluster].mem
          THEN LET c1 == IF cluster_nodes[cluster] + 1 > chosen_slot.free[cluster]
                         THEN NextCluster(cluster)
                         ELSE cluster
               IN /\ node_ram' = 0
                  /\ cluster_nodes' = [cluster_nodes EXCEPT ![c1] = @ + 1]
                  /\ cluster' = NextCluster(c1)
                  /\ pc' = "while"
                  /\ i_vm' = i_vm
          ELSE /\ node_ram' = ram
               /\ i_vm' = i_vm + 1
               /\ UNCHANGED <<cluster_nodes, cluster, pc>>
    /\ UNCHANGED <<n_vm, vm_template, resources, clusters, clusters_attr,
                   chosen_slot, reservation, netVars, topoVars>>

\* lines 314-315: the cluster is full, take the next one
WhileFull ==
    /\ pc = "while"
    /\ cluster_nodes[cluster] >= chosen_slot.free[cluster]
    /\ cluster' = NextCluster(cluster)
    /\ UNCHANGED <<pc, n_vm, vm_template, resources, clusters, clusters_attr,
                   chosen_slot, cluster_nodes, node_ram, i_vm, reservation,
                   netVars, topoVars>>

\* line 314 false: back to line 306
WhileExit ==
    /\ pc = "while"
    /\ ~(cluster_nodes[cluster] >= chosen_slot.free[cluster])
    /\ i_vm' = i_vm + 1
    /\ pc' = "for_vm"
    /\ UNCHANGED <<n_vm, vm_template, resources, clusters, clusters_attr,
                   chosen_slot, cluster_nodes, cluster, node_ram, reservation,
                   netVars, topoVars>>

\* line 316, then lines 319-325
LastHostAndMerge ==
    /\ pc = "for_vm"
    /\ i_vm = n_vm
    /\ LET st == MergeAll([cn |-> [cluster_nodes EXCEPT ![cluster] = @ + 1],
                           res |-> resources], Keys)
       IN /\ cluster_nodes' = st.cn
          /\ resources' = st.res
    /\ pc' = "merged"
    /\ UNCHANGED <<n_vm, vm_template, clusters, clusters_attr,
                   chosen_slot, cluster, node_ram, i_vm, reservation, netVars, topoVars>>

CreateReservationAfterExit ==
    /\ pc \in {"merged", "exit"}
    /\ reservation' = Append(reservation,
                              [start |-> IF pc = "merged" THEN chosen_slot.start ELSE 0,
                               resources |-> resources])
    /\ pc' = "reserved"
    /\ UNCHANGED <<n_vm, vm_template, resources, clusters, clusters_attr,
                   chosen_slot, cluster_nodes, cluster, node_ram, i_vm, netVars, topoVars>>

\* lines 329-336
CreateReservation ==
    /\ pc = "merged"
    /\ resources' = Update(Update(resources, cluster_nodes),
                           [k \in {"kavlan"} |-> chosen_slot.free["kavlan"]])
    /\ reservation' = Append(reservation,
                              [start |-> chosen_slot.start, resources |-> resources'])
    /\ pc' = "reserved"
    /\ UNCHANGED <<n_vm, vm_template, clusters, clusters_attr,
                   chosen_slot, cluster_nodes, cluster, node_ram, i_vm, netVars, topoVars>>

Next ==
    \/ FindSlot
    \/ ForVm
    \/ WhileFull
    \/ WhileExit
    \/ LastHostAndMerge
    \/ CreateReservation

Spec == Init /\ [][Next]_vars

\* ------------------------------------------------------- IP-MAC list
\* addresses: the subnet 10.0.<base>.0 spanning <size> values of the third octet
Subnets == {[base |-> b, size |-> n] : b \in {0, 64, 215}, n \in 1..MaxBlock}
\* routed KaVLANs have the ids 4 to 9
KavlanIds == {4, 5, 8}
SiteLists == {<<"A">>, <<"A", "B">>}
\* values random.randint(0x00, 0xff) is let to return
Octets == {0, 255}

\* IPNetwork(addresses).iter_hosts(): every address of the block but the first
\* (network) and the last (broadcast), in increasing order, as its four words
iter_hosts(net) ==
    LET w == LastOctet + 1
        n == net.size * w
    IN [k \in 1..(n - 2) |-> <<10, 0, net.base + (k \div w), k % w>>]

\* lines 412-416 (Python words[2] is the third octet, words[3] the fourth)
KeepIp(ip) ==
    /\ ip[4] # 0
    /\ \/ Len(sites) = 1 /\ ip[3] > (kavlan_id - 4) * 64 + 2
       \/ ip[3] >= 216

\* vm_ip[0:n_vm]
Slice(s, n) == SubSeq(s, 1, IF n < Len(s) THEN n ELSE Len(s))

\* line 426: mac in macs
InMacsNever(m, ms) == FALSE

InMacs(m, ms) == m \in Range(ms)

\* str(ip)
StrIp(ip) ==
    ToString(ip[1]) \o "." \o ToString(ip[2]) \o "." \o ToString(ip[3]) \o "." \o ToString(ip[4])

HexDigits == <<"0", "1", "2", "3", "4", "5", "6", "7", "8", "9", "a", "b", "c", "d", "e", "f">>

\* "%02x" % x
Hex02(x) == HexDigits[(x \div 16) + 1] \o HexDigits[(x % 16) + 1]

\* ':'.join(map(lambda x: "%02x" % x, mac))
StrMac(m) ==
    Hex02(m[1]) \o ":" \o Hex02(m[2]) \o ":" \o Hex02(m[3]) \o ":" \o
    Hex02(m[4]) \o ":" \o Hex02(m[5]) \o ":" \o Hex02(m[6])

\* lines 422-425 and 427-430: 0x00, 0x020, 0x4e and three random bytes
RandomMacs == {<<0, 32, 78, a, b, c>> : a \in Octets, b \in Octets, c \in Octets}

\* a run on an existing reservation: the subnet, the sites and n_vm are known
InitNet ==
    /\ pc = "ips"
    /\ n_vm \in 1..MaxVm
    /\ vm_template \in {[mem |-> 1, cpu |-> 1]}
    /\ ResIdle
    /\ sites \in SiteLists
    /\ kavlan_id \in KavlanIds
    /\ addresses \in Subnets
    /\ vm_ip = <<>> /\ macs = <<>> /\ mac = None /\ ip_mac = <<>> /\ i_ip = 0
    /\ TopoIdle

\* lines 409-416
FilterIps ==
    /\ pc = "ips"
    /\ vm_ip' = SelectSeq(iter_hosts(addresses), KeepIp)
    /\ pc' = "min_ip"
    /\ UNCHANGED <<n_vm, vm_template, resVars, sites, kavlan_id, addresses, macs, mac,
                   ip_mac, i_ip, topoVars>>

\* lines 418-420: vm_ip[0] of an empty list raises IndexError
MinIp ==
    /\ pc = "min_ip"
    /\ pc' = IF Len(vm_ip) = 0 THEN "IndexError" ELSE "for_ip"
    /\ UNCHANGED <<n_vm, vm_template, resVars, netVars, topoVars>>

\* lines 421-425
DrawMac ==
    /\ pc = "for_ip"
    /\ i_ip < Len(Slice(vm_ip, n_vm))
    /\ mac' \in RandomMacs
    /\ pc' = "while_mac"
    /\ UNCHANGED <<n_vm, vm_template, resVars, sites, kavlan_id, addresses, vm_ip, macs,
                   ip_mac, i_ip, topoVars>>

\* lines 426-430
RedrawMac ==
    /\ pc = "while_mac"
    /\ InMacs(mac, macs)
    /\ mac' \in RandomMacs
    /\ UNCHANGED <<pc, n_vm, vm_template, resVars, sites, kavlan_id, addresses, vm_ip,
                   macs, ip_mac, i_ip, topoVars>>

\* lines 431-432
AppendIpMac ==
    /\ pc = "while_mac"
    /\ ~InMacs(mac, macs)
    /\ macs' = Append(macs, mac)
    /\ ip_mac' = Append(ip_mac, <<StrIp(Slice(vm_ip, n_vm)[i_ip + 1]), StrMac(mac)>>)
    /\ i_ip' = i_ip + 1
    /\ pc' = "for_ip"
    /\ UNCHANGED <<n_vm, vm_template, resVars, sites, kavlan_id, addresses, vm_ip, mac,
                   topoVars>>

\* line 421: the loop is over
IpMacDone ==
    /\ pc = "for_ip"
    /\ i_ip = Len(Slice(vm_ip, n_vm))
    /\ pc' = "ip_mac_done"
    /\ UNCHANGED <<n_vm, vm_template, resVars, netVars, topoVars>>

NextNet ==
    \/ FilterIps
    \/ MinIp
    \/ DrawMac
    \/ RedrawMac
    \/ AppendIpMac
    \/ IpMacDone

SpecNet == InitNet /\ [][NextNet]_vars

\* ------------------------------- topology/reservation correspondence
\* Strings that are split or searched are sequences of characters.
HostIds == {<<"a", "-", "1">>, <<"a", "-", "2">>, <<"a", "-", "9">>, <<"b", "a", "-", "1">>}
\* host.address of the nodes a job may hold: <short name>.A
NodeAddresses ==
    {<<"a", "-", "1", ".", "A">>, <<"a", "-", "2", ".", "A">>, <<"b", "a", "-", "1", ".", "A">>}

\* the characters in ASCII order
Alphabet == <<"-", ".", "1", "2", "9", "A", "a", "b">>

RECURSIVE StrLess(_, _)
StrLess(s, t) ==
    IF t = <<>> THEN FALSE
    ELSE IF s = <<>> THEN TRUE
    ELSE IF Head(s) = Head(t) THEN StrLess(Tail(s), Tail(t))
    ELSE IndexOf(Alphabet, Head(s)) < IndexOf(Alphabet, Head(t))

\* line 383: hosts.sort(), on the addresses
RECURSIVE Sorted(_)
Sorted(S) ==
    IF S = {} THEN <<>>
    ELSE LET m == CHOOSE x \in S : \A y \in S \ {x} : StrLess(x, y)
         IN <<m>> \o Sorted(S \ {m})

\* s.split(sep)[0]
RECURSIVE SplitFirst(_, _)
SplitFirst(s, sep) ==
    IF s = <<>> \/ Head(s) = sep THEN <<>>
    ELSE <<Head(s)>> \o SplitFirst(Tail(s), sep)

\* sub in s, on strings
StrIn(sub, s) ==
    \E i \in 1..(Len(s) - Len(sub) + 1) : SubSeq(s, i, i + Len(sub) - 1) = sub

\* line 439
ShortNames(hs) == [i \in 1..Len(hs) |-> SplitFirst(hs[i], ".")]

\* line 441: host_el.get('id') not in tmp_hosts
NotReservedAlways(id, tmp) == TRUE

NotReserved(id, tmp) == id \notin Range(tmp)

\* line 442
Candidates(id, tmp) == SelectSeq(tmp, LAMBDA h : StrIn(SplitFirst(id, "-"), h))

\* a run with -i infile: the reservation holds its nodes, the tree is parsed
InitTopo ==
    /\ pc = "topology"
    /\ n_vm = 1
    /\ vm_template \in {[mem |-> 1, cpu |-> 1]}
    /\ ResIdle /\ NetIdle
    /\ \E H \in (SUBSET NodeAddresses) \ {{}} : hosts = Sorted(H)
    /\ infile \in UNION {[1..n -> HostIds] : n \in 1..MaxHostEls}
    /\ placement = infile
    /\ tmp_hosts = <<>> /\ i_host = 0 /\ runs = 0

\* lines 437-439; started again on the tree it left for a further run
StartCheck ==
    /\ pc \in {"topology", "checked"}
    /\ runs < MaxRuns
    /\ runs' = runs + 1
    /\ tmp_hosts' = ShortNames(hosts)
    /\ i_host' = 0
    /\ pc' = "for_host"
    /\ UNCHANGED <<n_vm, vm_template, resVars, netVars, hosts, infile, placement>>

\* line 441 false: the host is one of the reservation
HostReserved ==
    /\ pc = "for_host"
    /\ i_host < Len(placement)
    /\ ~NotReserved(placement[i_host + 1], tmp_hosts)
    /\ i_host' = i_host + 1
    /\ UNCHANGED <<pc, n_vm, vm_template, resVars, netVars, hosts, infile, placement,
                   tmp_hosts, runs>>

\* lines 441-444; tmp[0] of an empty list raises IndexError
HostReplaced ==
    /\ pc = "for_host"
    /\ i_host < Len(placement)
    /\ NotReserved(placement[i_host + 1], tmp_hosts)
    /\ LET tmp == Candidates(placement[i_host + 1], tmp_hosts)
       IN IF tmp = <<>>
          THEN /\ pc' = "IndexError"
               /\ UNCHANGED <<placement, tmp_hosts, i_host>>
          ELSE /\ placement' = [placement EXCEPT ![i_host + 1] = tmp[1]]
               /\ tmp_hosts' = ListRemove(tmp_hosts, tmp[1])
               /\ i_host' = i_host + 1
               /\ pc' = pc
    /\ UNCHANGED <<n_vm, vm_template, resVars, netVars, hosts, infile, runs>>

\* line 440: the loop is over
CheckDone ==
    /\ pc = "for_host"
    /\ i_host = Len(placement)
    /\ pc' = "checked"
    /\ UNCHANGED <<n_vm, vm_template, resVars, netVars, topoVars>>

NextTopo ==
    \/ StartCheck
    \/ HostReserved
    \/ HostReplaced
    \/ CheckDone

SpecTopo == InitTopo /\ [][NextTopo]_vars

\* ------------------------------------------------ claims: reservation
Distributed == pc \in {"merged", "reserved"}

\* C1: after the cyclic fill and the requested-minimum floor, no cluster is
\* given more hosts than the chosen slot has free for it.
C1_CapacitySafe ==
    Distributed =>
        \A c \in DOMAIN cluster_nodes : cluster_nodes[c] <= chosen_slot.free[c]

\* C2: the walk over the clusters never looks for a cluster with room when
\* every cluster is at its ceiling (from there it would cycle forever).
C2_NeverSpins ==
    pc = "while" =>
        \E c \in DOMAIN cluster_nodes : cluster_nodes[c] < chosen_slot.free[c]

Sufficient(slot) ==
    /\ total_mem <= slot_ram(slot)
    /\ total_cpu \div 2 <= slot_cpu(slot)

SufficientExact(slot) ==
    /\ total_mem <= slot_ram(slot)
    /\ total_cpu <= 2 * slot_cpu(slot)

HasChosen == pc \in {"for_vm", "while", "merged", "reserved"}

\* C3 as stated: the chosen slot has total_mem <= slot_ram and
\* total_cpu/2 <= slot_cpu, total_cpu/2 being the exact half.
C3_ChosenSufficientExact ==
    HasChosen => SufficientExact(chosen_slot)

\* C3 amended: the chosen slot has total_mem <= slot_ram and
\* total_cpu/2 <= slot_cpu, total_cpu/2 rounded down as Python 2 divides.
C3_ChosenSufficient ==
    HasChosen => Sufficient(chosen_slot)

C3_Witness ==
    /\ pc = "for_vm"
    /\ total_cpu \div 2 = slot_cpu(chosen_slot)
    /\ total_mem = slot_ram(chosen_slot)

\* C9: the hosts allocated hold the requested VM memory.
C9_EnoughMemory ==
    Distributed =>
        SumOver([c \in DOMAIN cluster_nodes |-> cluster_nodes[c] * clusters_attr[c].mem],
                DOMAIN cluster_nodes) >= total_mem

\* C10: after the merge a site's node count is the sum of the allocations of
\* its clusters.
C10_SiteIsSum ==
    Distributed =>
        \A c \in DOMAIN cluster_nodes :
            resources[get_cluster_site(c)] =
                SumOver(cluster_nodes,
                        {d \in DOMAIN cluster_nodes : get_cluster_site(d) = get_cluster_site(c)})

\* C12: a run that found no slot has stopped for good and has issued no
\* reservation; a reservation is issued only once, by a run that has chosen
\* a slot and has finished the host-count distribution for it.
C12_NoReservationWithoutSlot ==
    /\ [](pc = "exit" => reservation = <<>> /\ cluster_nodes = <<>>)
    /\ [][/\ pc = "exit" => pc' = "exit"
          /\ reservation' # reservation =>
                /\ pc = "merged"
                /\ i_vm = n_vm
                /\ DOMAIN cluster_nodes # {}
                /\ reservation = <<>>
                /\ reservation'[1].start = chosen_slot.start]_vars

C12_Witness ==
    /\ pc = "exit"
    /\ reservation = <<>>
    /\ n_vm >= 2

\* When the loop of line 306 is over, cluster_nodes counts the hosts found
\* full, each counted at line 310 right after a VM was put on it (line 307),
\* and node_ram is the memory of the VMs on the host that line 316 counts.
FillOver == pc = "for_vm" /\ i_vm = n_vm
HostsWithVm ==
    SumOver(cluster_nodes, DOMAIN cluster_nodes) + (IF node_ram > 0 THEN 1 ELSE 0)
HostsAllocated == SumOver(cluster_nodes, DOMAIN cluster_nodes) + 1

\* C13: the hosts allocated by the fill (line 316 included) are as many as
\* the hosts that received at least one VM.
C13_OnlyHostsWithVm ==
    FillOver => HostsAllocated = HostsWithVm

\* ------------------------------------------------ claims: IP-MAC list
\* C4: within one run no two pairs of ip_mac share an address and no two
\* share a MAC; a drawn MAC that was issued before is never the one emitted.
C4_NoDuplicates ==
    /\ \A i, j \in 1..Len(ip_mac) :
          i # j => ip_mac[i][1] # ip_mac[j][1] /\ ip_mac[i][2] # ip_mac[j][2]
    /\ \A i, j \in 1..Len(macs) : i # j => macs[i] # macs[j]

C4_Witness ==
    /\ pc = "ip_mac_done"
    /\ n_vm >= 2
    /\ Len(ip_mac) = n_vm
    /\ n_vm <= Len(vm_ip)

\* C5: the list returned has exactly n_vm pairs.
C5_ExactlyN ==
    pc = "ip_mac_done" => Len(ip_mac) = n_vm

\* C11: every address kept has a last octet other than 0 and a third octet
\* > (kavlan_id - 4) * 64 + 2 when there is one site, >= 216 when there are
\* more; the addresses issued are the first n_vm kept, in their order.
C11_FilterRule ==
    /\ \A i \in 1..Len(vm_ip) :
          /\ vm_ip[i][4] # 0
          /\ Len(sites) = 1 => vm_ip[i][3] > (kavlan_id - 4) * 64 + 2
          /\ Len(sites) > 1 => vm_ip[i][3] >= 216
    /\ \A i \in 1..Len(ip_mac) : ip_mac[i][1] = StrIp(vm_ip[i])

\* ------------------------- claims: topology/reservation correspondence
Distinct(s) == \A i, j \in 1..Len(s) : i # j => s[i] # s[j]
AllReserved(s) == \A i \in 1..Len(s) : s[i] \in Range(ShortNames(hosts))

\* C6: after the check the hosts of a topology whose ids were distinct are
\* pairwise distinct nodes of the reservation.
C6_DistinctHosts ==
    (pc = "checked" /\ Distinct(infile)) =>
        Distinct(placement) /\ AllReserved(placement)

\* C7: a host of the topology is only ever replaced by a node of its own
\* cluster (the text before the first '-').
C7_SameCluster ==
    \A i \in 1..Len(placement) :
        SplitFirst(placement[i], "-") = SplitFirst(infile[i], "-")

\* C8: a topology whose hosts are all nodes of the reservation is left as it
\* is, by one run of the check and by a second one.
C8_Idempotent ==
    AllReserved(infile) => placement = infile

C8_Witness ==
    /\ pc = "checked"
    /\ runs = 2
    /\ AllReserved(infile)
    /\ Len(infile) >= 2
    /\ Distinct(infile)
    /\ placement = infile
====
